---- MODULE Spec2Model ----
(***************************************************************************)
(* Model of the grow-shop grabber: the Shopware client (client.py), the    *)
(* catalog crawler (grabber.py), the Product record (models.py).           *)
(*                                                                         *)
(* Python dicts are functions whose DOMAIN is the set of present keys.     *)
(* None is the empty tuple; remote IDs are tuples <<name, version>>.       *)
(***************************************************************************)
EXTENDS Integers, Sequences, FiniteSets, TLC

\* ------------------------------------------------------------------ bounds
MaxProducts == 2
MaxRuns == 2
MaxRefresh == 1
MaxChanges == 2
MaxLookups == 3
MaxChain == 3
MaxImages == 2
MaxSeeds == 2
MaxFetches == 4

\* --------------------------------------------------------------- constants
None == <<>>
HomeName == "Home"
TaxCacheKey == "standard"
TaxName == "Standard rate"
FolderCacheKey == "product"
FolderName == "Product Media"
StatusNoContent == 204
StatusOK == 200
StatusError == 400
Visibility == 30
ExpMargin == 10

Symbols == {"EUR", "XXX"}
CategoryNames == {"Home", "Indoor", "LED"}
ProductNames == {"p1", "p2"}
Versions == {1, 2}

\* -------------------------------------------------------- the remote store
\* What a search endpoint answers for an exact-match filter: the list under
\* the "data" key.  table[key] is the sequence of matching entity IDs.
SearchData(table, key) ==
    [k \in 1..Len(table[key]) |-> [id |-> table[key][k]]]

\* ------------------------------------------------------------- the caches
EmptyCaches ==
    [currencies    |-> [s \in Symbols \cup {TaxCacheKey} |-> None],
     categories    |-> [n \in CategoryNames |-> None],
     taxes         |-> [k \in {TaxCacheKey} |-> None],
     media_folders |-> [k \in {FolderCacheKey} |-> None]]

\* Result of one lookup: the returned ID (or None), the client's caches
\* afterwards, whether the call raised, and whether a remote search
\* request was issued.  net is FALSE when the network call raises.
LookupResult(id, c, raised, asked) ==
    [id |-> id, c |-> c, raised |-> raised, asked |-> asked]

\* Mutant: the cache is never consulted.
GetCurrencyIdNoMemo(c, rem, symbol, net) ==
    IF ~net THEN LookupResult(None, c, TRUE, TRUE)
    ELSE LET content_data == SearchData(rem.currency, symbol) IN
         IF Len(content_data) = 0 THEN LookupResult(None, c, FALSE, TRUE)
         ELSE LookupResult(content_data[1].id,
                  [c EXCEPT !.currencies[symbol] = content_data[1].id],
                  FALSE, TRUE)

GetCurrencyId(c, rem, symbol, net) ==
    LET currency_id == c.currencies[symbol] IN
    IF currency_id # None THEN LookupResult(currency_id, c, FALSE, FALSE)
    ELSE IF ~net THEN LookupResult(None, c, TRUE, TRUE)
    ELSE LET content_data == SearchData(rem.currency, symbol) IN
         IF Len(content_data) = 0 THEN LookupResult(None, c, FALSE, TRUE)
         ELSE LookupResult(content_data[1].id,
                  [c EXCEPT !.currencies[symbol] = content_data[1].id],
                  FALSE, TRUE)

\* The tax ID is read from taxes but stored under currencies["standard"];
\* an empty result list raises IndexError.
GetStandardTaxId(c, rem, net) ==
    LET tax_id == c.taxes[TaxCacheKey] IN
    IF tax_id # None THEN LookupResult(tax_id, c, FALSE, FALSE)
    ELSE IF ~net THEN LookupResult(None, c, TRUE, TRUE)
    ELSE LET content_data == SearchData(rem.tax, TaxName) IN
         IF Len(content_data) = 0 THEN LookupResult(None, c, TRUE, TRUE)
         ELSE LookupResult(content_data[1].id,
                  [c EXCEPT !.currencies[TaxCacheKey] = content_data[1].id],
                  FALSE, TRUE)

GetProductMediaFolderId(c, rem, net) ==
    LET media_folder_id == c.media_folders[FolderCacheKey] IN
    IF media_folder_id # None THEN LookupResult(media_folder_id, c, FALSE, FALSE)
    ELSE IF ~net THEN LookupResult(None, c, TRUE, TRUE)
    ELSE LET content_data == SearchData(rem.folder, FolderName) IN
         IF Len(content_data) = 0 THEN LookupResult(None, c, FALSE, TRUE)
         ELSE LookupResult(content_data[1].id,
                  [c EXCEPT !.media_folders[FolderCacheKey] = content_data[1].id],
                  FALSE, TRUE)

GetCategoryId(c, rem, name, net) ==
    LET category_id == c.categories[name] IN
    IF category_id # None THEN LookupResult(category_id, c, FALSE, FALSE)
    ELSE IF ~net THEN LookupResult(None, c, TRUE, TRUE)
    ELSE LET content_data == SearchData(rem.category, name) IN
         IF Len(content_data) = 0 THEN LookupResult(None, c, FALSE, TRUE)
         ELSE LookupResult(content_data[1].id,
                  [c EXCEPT !.categories[name] = content_data[1].id],
                  FALSE, TRUE)

\* Mutant: the search never reports a match.
GetProductIdNoMatch(rem, name, net) == [id |-> None, raised |-> ~net]

\* No cache: every call searches.
GetProductId(rem, name, net) ==
    IF ~net THEN [id |-> None, raised |-> TRUE]
    ELSE LET content_data == SearchData(rem.product, name) IN
         IF Len(content_data) = 0 THEN [id |-> None, raised |-> FALSE]
         ELSE [id |-> content_data[1].id, raised |-> FALSE]

\* ------------------------------------------------------- Python dict helpers
Put(d, k, v) == (k :> v) @@ d
Del(d, k) == [x \in DOMAIN d \ {k} |-> d[x]]
Has(d, k) == k \in DOMAIN d

\* Number of network calls left before one raises, after a call that was
\* (asked) or was not issued.
Spend(ok, asked) == IF asked THEN ok - 1 ELSE ok

\* ---------------------------------------------------------------- models.py
ProductInitParams ==
    {"name", "price", "description", "category_set", "image_urls", "ean"}

ToDict(product) ==
    [name |-> product.name, description |-> product.description,
     ean |-> product.ean]

\* ------------------------------------------------- category hierarchy builder
\* The nested category dict is a chain, kept as the sequence of its nodes
\* from the leaf upward: node k+1 is node k's "parent".  last_parent, the
\* deepest node without a parent, is the last node of the sequence.
\* parents is category_set[:-1][::-1], i the 0-based loop index, n the
\* length of category_set, ok the network calls left before one raises.
\* Line 205: an ancestor that resolves ends the climb.
FoundParentNever(parent_id) == FALSE

FoundParent(parent_id) == parent_id # None

RECURSIVE WalkParents(_, _, _, _, _, _, _)
WalkParents(category, parents, i, n, c, rem, ok) ==
    IF i >= Len(parents)
    THEN [category |-> category, c |-> c, raised |-> FALSE, ok |-> ok]
    ELSE
      LET parent == parents[i + 1]
          r == GetCategoryId(c, rem, parent, ok > 0)
          ok1 == Spend(ok, r.asked)
      IN
      IF r.raised
      THEN [category |-> category, c |-> r.c, raised |-> TRUE, ok |-> ok1]
      ELSE IF FoundParent(r.id)
      THEN [category |-> Append(category, [id |-> r.id]), c |-> r.c,
            raised |-> FALSE, ok |-> ok1]
      ELSE
        LET named == Append(category, [name |-> parent]) IN
        IF i = n - 2
        THEN
          LET h == GetCategoryId(r.c, rem, HomeName, ok1 > 0)
              ok2 == Spend(ok1, h.asked)
          IN
          IF h.raised
          THEN [category |-> named, c |-> h.c, raised |-> TRUE, ok |-> ok2]
          ELSE WalkParents(Append(named, [id |-> h.id]), parents, i + 1, n,
                           h.c, rem, ok2)
        ELSE WalkParents(named, parents, i + 1, n, r.c, rem, ok1)

Reverse(s) == [k \in 1..Len(s) |-> s[Len(s) + 1 - k]]

BuildCategory(category_set, c, rem, ok) ==
    IF Len(category_set) = 0
    THEN [category |-> <<>>, c |-> c, raised |-> TRUE, ok |-> ok]
    ELSE
      LET category_name == category_set[Len(category_set)]
          r == GetCategoryId(c, rem, category_name, ok > 0)
          ok1 == Spend(ok, r.asked)
      IN
      IF r.raised
      THEN [category |-> <<>>, c |-> r.c, raised |-> TRUE, ok |-> ok1]
      ELSE IF r.id # None
      THEN [category |-> <<[id |-> r.id]>>, c |-> r.c, raised |-> FALSE,
            ok |-> ok1]
      ELSE WalkParents(<<[name |-> category_name]>>,
                       Reverse(SubSeq(category_set, 1, Len(category_set) - 1)),
                       0, Len(category_set), r.c, rem, ok1)

\* ------------------------------------------------------------ media uploader
\* An image URL is kept as the dot-separated parts of its last path segment
\* (image_url.split("/")[-1].split(".")).  The media ID of the image at
\* 0-based index i stands for the fresh uuid generated for it.
\* resp[i + 1] holds the statuses the platform answers for image i.
MediaId(i) == <<"media", i>>

CoverIndex == 0

RECURSIVE UploadImages(_, _, _, _, _, _, _, _, _)
UploadImages(image_urls, i, data, media, c, rem, ok, resp, sent) ==
    IF i >= Len(image_urls)
    THEN [data |-> data, media |-> media, c |-> c, raised |-> FALSE,
          ok |-> ok, sent |-> sent]
    ELSE
      LET image_url == image_urls[i + 1]
          id_ == MediaId(i)
          f == GetProductMediaFolderId(c, rem, ok > 0)
          ok1 == Spend(ok, f.asked)
          createReq == [kind |-> "media_create", id |-> id_,
                        mediaFolderId |-> f.id]
          uploadReq == [kind |-> "media_upload", id |-> id_]
          sent1 == Append(sent, createReq)
          sent2 == Append(sent1, uploadReq)
          fail(cc, o, snt) ==
              [data |-> data, media |-> media, c |-> cc, raised |-> TRUE,
               ok |-> o, sent |-> snt]
      IN
      IF f.raised THEN fail(f.c, ok1, sent)
      ELSE IF ok1 <= 0 THEN fail(f.c, ok1 - 1, sent1)
      ELSE IF resp[i + 1].create # StatusNoContent
      THEN UploadImages(image_urls, i + 1, data, media, f.c, rem, ok1 - 1,
                        resp, sent1)
      ELSE IF Len(image_url) # 2 THEN fail(f.c, ok1 - 1, sent1)
      ELSE IF ok1 - 1 <= 0 THEN fail(f.c, ok1 - 2, sent2)
      ELSE IF resp[i + 1].upload # StatusNoContent
      THEN UploadImages(image_urls, i + 1, data, media, f.c, rem, ok1 - 2,
                        resp, sent2)
      ELSE IF i = CoverIndex
      THEN UploadImages(image_urls, i + 1,
                        Put(data, "cover", [mediaId |-> id_]), media, f.c,
                        rem, ok1 - 2, resp, sent2)
      ELSE UploadImages(image_urls, i + 1, data,
                        Append(media, [mediaId |-> id_]), f.c, rem, ok1 - 2,
                        resp, sent2)

\* ------------------------------------------------------------ _product_data
\* Lines 178-179: without a currency ID the transform returns None.
CurrencyMissingIgnored(currency_id) == FALSE

CurrencyMissing(currency_id) == currency_id = None

\* product.price is the token list of price.split(); the amount token is the
\* list of its comma-separated parts, of which only the first is kept.
\* Returns ret (the payload, or None), raised, the caches afterwards, the
\* write requests sent meanwhile and the network calls left.
\* call identifies the call of _product_data: uuid4 gives every call a number
\* of its own.
ProductNumber(call) == <<"uuid", call>>

ProductData(product, c, rem, ok, resp, call) ==
    LET data0 == ToDict(product)
        out(ret, raised, cc, snt, o) ==
            [ret |-> ret, raised |-> raised, c |-> cc, sent |-> snt, ok |-> o]
    IN
    IF Len(product.price) # 2 THEN out(None, TRUE, c, <<>>, ok)
    ELSE
      LET num == product.price[1][1]
          symbol == product.price[2]
          cur == GetCurrencyId(c, rem, symbol, ok > 0)
          ok1 == Spend(ok, cur.asked)
      IN
      IF cur.raised THEN out(None, TRUE, cur.c, <<>>, ok1)
      ELSE IF CurrencyMissing(cur.id) THEN out(None, FALSE, cur.c, <<>>, ok1)
      ELSE
        LET data1 == Put(data0, "price",
                         <<[currencyId |-> cur.id, gross |-> num,
                            net |-> num, linked |-> TRUE]>>)
            cat == BuildCategory(product.category_set, cur.c, rem, ok1)
        IN
        IF cat.raised THEN out(None, TRUE, cat.c, <<>>, cat.ok)
        ELSE
          LET data2 == Put(data1, "categories", <<cat.category>>)
              up == UploadImages(product.image_urls, 0, data2, <<>>, cat.c,
                                 rem, cat.ok, resp, <<>>)
          IN
          IF up.raised THEN out(None, TRUE, up.c, up.sent, up.ok)
          ELSE
            LET data3 == Put(up.data, "media", up.media)
                data4 == Put(data3, "productNumber", ProductNumber(call))
                tax == GetStandardTaxId(up.c, rem, up.ok > 0)
                ok2 == Spend(up.ok, tax.asked)
            IN
            IF tax.raised THEN out(None, TRUE, tax.c, up.sent, ok2)
            ELSE out(Put(Put(data4, "taxId", tax.id), "stock", 0),
                     FALSE, tax.c, up.sent, ok2)

\* ================================================================ the state
VARIABLES
    data,            \* the product list handed to send_data
    remote,          \* the platform's store: product, currency, category, tax, folder
    caches,          \* the client's currencies, categories, taxes, media_folders
    session,         \* "none", "open", "closed"
    authorization,   \* the session's Authorization header (grant number or None)
    refresh_token,   \* grant number of the stored refresh token, or None
    exp,             \* seconds the refresh loop sleeps
    grants,          \* grants the token endpoint has issued to this client
    pc,              \* position of App.run / send_data
    idx,             \* 1-based index of the product being processed
    product_data,    \* payload of the current product (None outside)
    product_id,      \* result of the name search (None outside)
    task,            \* the refresh task: "none", "sleeping", "posting", "failed", "cancelled"
    cancel_requested,\* task.cancel() has been called
    refreshes,       \* refresh requests started in this run
    late_refresh,    \* a refresh request was started after send_data finished
    rec,             \* what happened to the product processed last: how its
                     \* transform ended, what the platform answered to the name
                     \* search, the write requests sent for it
    attempted,       \* indexes of the products whose processing has begun
    send_data_state, \* "idle", "running", "returned", "raised"
    run,             \* number of the current run of the program
    created,         \* names of the products created by earlier runs
    token_expires_in,\* expires_in reported with the token now in the header
    app_run          \* App.run: whether it logged a fatal error, how it ended

\* Everything of the client but its caches, and the remote store.
sendRest ==
    <<data, session, authorization, refresh_token, exp, grants, pc, idx,
      product_data, product_id, task, cancel_requested, refreshes,
      late_refresh, rec, attempted, send_data_state, run, created, app_run,
      token_expires_in>>

sendVars == <<remote, caches, sendRest>>

\* The crawler (grabber.py).
VARIABLES
    site,            \* the source site: its listing pages and product pages
    catalog_links,   \* the seeds, self.catalog_links
    gpc,             \* position of grab
    seed,            \* 1-based index of the seed being processed
    catalog_link,    \* URL of the listing page the while loop is at
    category,        \* title of the listing page being processed
    links,           \* product links of the listing page being processed
    link,            \* 1-based index of the next product link
    products,        \* the result list
    fetched          \* the listing pages fetched so far, as <<seed, URL>>

grabVars ==
    <<site, catalog_links, gpc, seed, catalog_link, category, links, link,
      products, fetched>>

\* Single calls of the client's methods, for the properties of one call.
VARIABLES
    inp,             \* the arguments of the call
    out,             \* what the call returned
    hist,            \* the ID each lookup kind and key returned first
    steps,           \* calls made so far
    changes          \* changes of the remote store so far

unitVars == <<inp, out, hist, steps, changes>>

vars == <<sendVars, grabVars, unitVars>>

\* ------------------------------------------------------------ input domains
Lifetimes == {30, 60}

Id(name, v) == <<name, v>>

Catalog ==
    {[name |-> "p1", price |-> <<<<19, 99>>, "EUR">>, description |-> "d1",
      category_set |-> <<"Home", "Indoor", "LED">>,
      image_urls |-> <<<<"a", "jpg">>>>, ean |-> "e1"],
     [name |-> "p2", price |-> <<<<5>>, "XXX">>, description |-> "d2",
      category_set |-> <<"Indoor">>,
      image_urls |-> <<<<"c", "jpg">>>>, ean |-> "e2"],
     [name |-> "p1", price |-> <<<<7, 50>>>>, description |-> "",
      category_set |-> <<"LED">>, image_urls |-> <<>>, ean |-> "e3"]}

ProductLists == UNION {[1..n -> Catalog] : n \in 0..MaxProducts}

RemoteInits ==
    {[product  |-> [n \in ProductNames |-> IF n \in had THEN <<Id(n, 1), Id(n, 2)>> ELSE <<>>],
      currency |-> [s \in Symbols |-> IF s = "EUR" THEN <<Id(s, 1)>> ELSE <<>>],
      category |-> [n \in CategoryNames |-> IF n = "Indoor" THEN <<Id(n, 1)>> ELSE <<>>],
      tax      |-> [k \in {TaxName} |-> <<Id(k, 1)>>],
      folder   |-> [k \in {FolderName} |-> <<Id(k, 1)>>]] :
        had \in {{}, {"p1"}}}

NoAppRun == [fatal |-> FALSE, ended |-> "no"]

NoRec ==
    [idx |-> 0, name |-> "", transform |-> "idle", search |-> "idle",
     matches |-> <<>>, writes |-> <<>>, done |-> FALSE]

Statuses == {StatusNoContent, StatusError}

\* Network calls one transform can make: currency, leaf, each ancestor,
\* "Home", three per image, tax.
CallsBound(product) ==
    3 + Len(product.category_set) + 3 * Len(product.image_urls)

\* ok, the number of network calls that go through before one raises:
\* CallsBound + 1 cannot be used up, so with it no call raises.
FaultPoints(product) == 0..(CallsBound(product) + 1)

ImageResponses(product) ==
    [1..Len(product.image_urls) -> [create : Statuses, upload : Statuses]]

\* ================================================================== App.run
\* Line 60: grabber.grab() returns the product list, or raises (the fetch
\* of the site root and the parse of its menu are outside grab's try
\* blocks, grabber.py lines 38-42).
Grab ==
    /\ UNCHANGED <<grabVars, unitVars, app_run, token_expires_in>>
    /\ pc = "grab"
    /\ \E raised \in BOOLEAN : pc' = IF raised THEN "except" ELSE "start"
    /\ UNCHANGED <<data, remote, caches, session, authorization,
                   refresh_token, exp, grants, idx, product_data, product_id,
                   task, cancel_requested, refreshes, late_refresh, rec,
                   attempted, send_data_state, run, created>>

\* client.start(): the session is opened.
Start ==
    /\ UNCHANGED <<grabVars, unitVars, app_run, token_expires_in>>
    /\ pc = "start"
    /\ session' = "open"
    /\ pc' = "auth"
    /\ UNCHANGED <<data, remote, caches, authorization, refresh_token, exp,
                   grants, idx, product_data, product_id, task,
                   cancel_requested, refreshes, late_refresh, rec, attempted,
                   send_data_state, run, created>>

\* What the client stores from the answer to its n-th successful grant:
\* the access token in the Authorization header and the refresh token
\* (lines 81-85 and 108-111, with no suspension point in between).
GrantTokensStaleRefresh(n) ==
    [authorization |-> Id("access", n), refresh_token |-> Id("refresh", n - 1)]

GrantTokens(n) ==
    [authorization |-> Id("access", n), refresh_token |-> Id("refresh", n)]

\* client.auth(): a password grant; a non-200 answer (or a network error)
\* raises, which App.run logs as fatal before stopping the client.
Auth ==
    /\ UNCHANGED <<grabVars, unitVars, app_run>>
    /\ pc = "auth"
    /\ \E status \in {StatusOK, StatusError}, expires_in \in Lifetimes :
         IF status # StatusOK
         THEN /\ pc' = "except"
              /\ UNCHANGED <<authorization, refresh_token, exp, grants,
                             token_expires_in>>
         ELSE /\ grants' = grants + 1
              /\ authorization' = GrantTokens(grants + 1).authorization
              /\ token_expires_in' = expires_in
              /\ exp' = expires_in - ExpMargin
              /\ refresh_token' = GrantTokens(grants + 1).refresh_token
              /\ pc' = "send_data"
    /\ UNCHANGED <<data, remote, caches, session, idx, product_data,
                   product_id, task, cancel_requested, refreshes,
                   late_refresh, rec, attempted, send_data_state, run, created>>

\* ================================================================ send_data
\* task.cancel(): a task that is still pending is cancelled; on a task that
\* is already done the call changes nothing.
TaskCancelSkipped(t) == [task |-> t, requested |-> FALSE]

TaskCancel(t) ==
    [task |-> IF t \in {"sleeping", "posting"} THEN "cancelled" ELSE t,
     requested |-> TRUE]

\* The except clause of the loop body (lines 157-159): every Exception is
\* caught and logged, and the loop continues with the next product.
ExceptClauseBreak(i, n) == [caught |-> TRUE, next |-> n + 1]

ExceptClauseRestart(i, n) == [caught |-> TRUE, next |-> 1]

ExceptClause(i, n) == [caught |-> TRUE, next |-> i + 1]

\* The loop goes on with product `next`; past the end of the list the
\* refresh task is cancelled and send_data returns.  No suspension point
\* lies between the last product and task.cancel().
Continue(next) ==
    /\ idx' = next
    /\ product_data' = None
    /\ product_id' = None
    /\ IF next <= Len(data)
       THEN /\ pc' = "product"
            /\ UNCHANGED <<task, cancel_requested, send_data_state>>
       ELSE /\ pc' = "stop"
            /\ task' = TaskCancel(task).task
            /\ cancel_requested' = TaskCancel(task).requested
            /\ send_data_state' = "returned"

\* An exception raised while product idx is processed.
Handle ==
    LET h == ExceptClause(idx, Len(data)) IN
    IF h.caught
    THEN Continue(h.next)
    ELSE /\ pc' = "except"
         /\ send_data_state' = "raised"
         /\ UNCHANGED <<idx, product_data, product_id, task, cancel_requested>>

\* Line 125 and the entry into the loop.
SendDataStart ==
    /\ UNCHANGED <<grabVars, unitVars, app_run, token_expires_in>>
    /\ pc = "send_data"
    /\ LET created_task == "sleeping" IN
       /\ attempted' = {}
       /\ rec' = NoRec
       /\ idx' = 1
       /\ product_data' = None
       /\ product_id' = None
       /\ IF Len(data) >= 1
          THEN /\ pc' = "product"
               /\ task' = created_task
               /\ send_data_state' = "running"
               /\ UNCHANGED cancel_requested
          ELSE /\ pc' = "stop"
               /\ task' = TaskCancel(created_task).task
               /\ cancel_requested' = TaskCancel(created_task).requested
               /\ send_data_state' = "returned"
    /\ UNCHANGED <<data, remote, caches, session, authorization,
                   refresh_token, exp, grants, refreshes, late_refresh, run,
                   created>>

\* Lines 129-131: the transform of the current product.
Transform ==
    /\ UNCHANGED <<grabVars, unitVars, app_run, token_expires_in>>
    /\ pc = "product"
    /\ LET product == data[idx] IN
       \E ok \in FaultPoints(product), resp \in ImageResponses(product) :
       \E r \in {ProductData(product, caches, remote, ok, resp,
                               <<run, idx>>)} :
         LET started == [idx |-> idx, name |-> product.name,
                         transform |-> IF r.raised THEN "raised"
                                       ELSE IF r.ret = None THEN "none"
                                       ELSE "payload",
                         search |-> "idle", matches |-> <<>>,
                         writes |-> r.sent,
                         done |-> r.raised \/ r.ret = None]
         IN
         /\ caches' = r.c
         /\ attempted' = attempted \cup {idx}
         /\ rec' = started
         /\ IF r.raised THEN Handle
            ELSE IF r.ret = None THEN Continue(idx + 1)
            ELSE /\ product_data' = r.ret
                 /\ pc' = "search"
                 /\ UNCHANGED <<idx, product_id, task, cancel_requested,
                                send_data_state>>
    /\ UNCHANGED <<data, remote, session, authorization, refresh_token, exp,
                   grants, refreshes, late_refresh, run, created>>

\* Line 133: the search by the product's name.
Search ==
    /\ UNCHANGED <<grabVars, unitVars, app_run, token_expires_in>>
    /\ pc = "search"
    /\ \E net \in BOOLEAN :
         LET r == GetProductId(remote, product_data["name"], net) IN
         /\ rec' = [rec EXCEPT !.search = IF net THEN "answered" ELSE "raised",
                               !.matches = IF net
                                           THEN remote.product[product_data["name"]]
                                           ELSE <<>>,
                               !.done = r.raised]
         /\ IF r.raised THEN Handle
            ELSE /\ product_id' = r.id
                 /\ pc' = "write"
                 /\ UNCHANGED <<idx, product_data, task, cancel_requested,
                                send_data_state>>
    /\ UNCHANGED <<data, remote, caches, session, authorization,
                   refresh_token, exp, grants, refreshes, late_refresh,
                   attempted, run, created>>

\* Lines 134-149: the request the name search selects.
SalesChannelId == "SALES_CHANNEL_ID"

WriteRequestSwapped(pdata, pid) ==
    IF pid # None
    THEN [method |-> "POST", url |-> <<"/api/product">>,
          json |-> Put(pdata, "visibilities",
                       <<[salesChannelId |-> SalesChannelId,
                          visibility |-> Visibility]>>)]
    ELSE [method |-> "PATCH", url |-> <<"/api/product", pid>>,
          json |-> Del(pdata, "productNumber")]

WriteRequestKeepNumber(pdata, pid) ==
    IF pid = None
    THEN [method |-> "POST", url |-> <<"/api/product">>,
          json |-> Put(pdata, "visibilities",
                       <<[salesChannelId |-> SalesChannelId,
                          visibility |-> Visibility]>>)]
    ELSE [method |-> "PATCH", url |-> <<"/api/product", pid>>,
          json |-> pdata]

WriteRequest(pdata, pid) ==
    IF pid = None
    THEN [method |-> "POST", url |-> <<"/api/product">>,
          json |-> Put(pdata, "visibilities",
                       <<[salesChannelId |-> SalesChannelId,
                          visibility |-> Visibility]>>)]
    ELSE [method |-> "PATCH", url |-> <<"/api/product", pid>>,
          json |-> Del(pdata, "productNumber")]

\* The platform records a product created with status 204 under its name.
RemoteCreate(rem, name) ==
    [rem EXCEPT !.product[name] = Append(@, Id(name, Len(@) + 1))]

\* Lines 140-155: the write and the check of its status.  net is FALSE
\* when the network call raises, status is the status answered otherwise.
SendProduct ==
    /\ UNCHANGED <<grabVars, unitVars, app_run, token_expires_in>>
    /\ pc = "write"
    /\ \E net \in BOOLEAN, status \in Statuses :
         LET req == WriteRequest(product_data, product_id)
             name == product_data["name"]
             ok == net /\ status = StatusNoContent
         IN
         /\ rec' = [rec EXCEPT !.writes = Append(@, [kind |-> req.method,
                                                      url |-> req.url,
                                                      json |-> req.json]),
                               !.done = TRUE]
         /\ IF ok /\ req.method = "POST"
            THEN /\ remote' = RemoteCreate(remote, name)
                 /\ created' = [created EXCEPT ![name] =
                                    IF @ = 0 THEN run ELSE @]
            ELSE UNCHANGED <<remote, created>>
         /\ IF ~net
            THEN Handle
            ELSE Continue(idx + 1)
    /\ UNCHANGED <<data, caches, session, authorization, refresh_token, exp,
                   grants, refreshes, late_refresh, attempted, run>>

\* ============================================================ refresh task
\* Line 94 has returned: the loop sends the refresh-token grant request.
RefreshWake ==
    /\ UNCHANGED <<grabVars, unitVars, app_run, token_expires_in>>
    /\ task = "sleeping"
    /\ pc \in {"product", "search", "write", "stop"}
    /\ refreshes < MaxRefresh
    /\ task' = "posting"
    /\ refreshes' = refreshes + 1
    /\ late_refresh' = (late_refresh \/ send_data_state \in {"returned", "raised"})
    /\ UNCHANGED <<data, remote, caches, session, authorization,
                   refresh_token, exp, grants, pc, idx, product_data,
                   product_id, cancel_requested, rec, attempted,
                   send_data_state, run, created>>

\* Lines 101-111: the answer to the grant request.
RefreshResponse ==
    /\ UNCHANGED <<grabVars, unitVars, app_run>>
    /\ task = "posting"
    /\ pc \in {"product", "search", "write", "stop"}
    /\ \E status \in {StatusOK, StatusError}, expires_in \in Lifetimes :
         IF status # StatusOK
         THEN /\ task' = "failed"
              /\ UNCHANGED <<authorization, refresh_token, grants,
                             token_expires_in>>
         ELSE /\ grants' = grants + 1
              /\ authorization' = GrantTokens(grants + 1).authorization
              /\ token_expires_in' = expires_in
              /\ refresh_token' = GrantTokens(grants + 1).refresh_token
              /\ task' = "sleeping"
    /\ UNCHANGED <<data, remote, caches, session, exp, pc, idx, product_data,
                   product_id, cancel_requested, refreshes, late_refresh, rec,
                   attempted, send_data_state, run, created>>

\* ============================================================ end of the run
\* Lines 66-67: the except clause of App.run logs the failure as fatal.
Except ==
    /\ UNCHANGED <<grabVars, unitVars, token_expires_in>>
    /\ pc = "except"
    /\ app_run' = [app_run EXCEPT !.fatal = TRUE]
    /\ pc' = "stop"
    /\ UNCHANGED <<data, remote, caches, session, authorization,
                   refresh_token, exp, grants, idx, product_data, product_id,
                   task, cancel_requested, refreshes, late_refresh, rec,
                   attempted, send_data_state, run, created>>

\* Lines 68-69: client.stop() in the finally clause of App.run awaits
\* self.session.close().  The session attribute exists only once start()
\* has run (line 48); without it the attribute access raises
\* AttributeError, which leaves run.
Stop ==
    /\ UNCHANGED <<grabVars, unitVars, token_expires_in>>
    /\ pc = "stop"
    /\ IF session = "none"
       THEN /\ app_run' = [app_run EXCEPT !.ended = "raised"]
            /\ UNCHANGED session
       ELSE /\ session' = "closed"
            /\ app_run' = [app_run EXCEPT !.ended = "returned"]
    /\ pc' = "done"
    /\ UNCHANGED <<data, remote, caches, authorization, refresh_token, exp,
                   grants, idx, product_data, product_id, task,
                   cancel_requested, refreshes, late_refresh, rec, attempted,
                   send_data_state, run, created>>

\* The program is run again over the same product list: a new process, a
\* new client, the same remote store.
Rerun ==
    /\ UNCHANGED <<grabVars, unitVars>>
    /\ pc = "done"
    /\ run < MaxRuns
    /\ run' = run + 1
    /\ pc' = "grab"
    /\ app_run' = NoAppRun
    /\ token_expires_in' = 0
    /\ caches' = EmptyCaches
    /\ session' = "none"
    /\ authorization' = None
    /\ refresh_token' = None
    /\ exp' = 0
    /\ idx' = 0
    /\ product_data' = None
    /\ product_id' = None
    /\ task' = "none"
    /\ cancel_requested' = FALSE
    /\ refreshes' = 0
    /\ late_refresh' = FALSE
    /\ rec' = NoRec
    /\ attempted' = {}
    /\ send_data_state' = "idle"
    /\ grants' = 0
    /\ UNCHANGED <<data, remote, created>>

\* The parts of the state a specification does not use stay as they are here.
GrabIdle ==
    /\ site = None
    /\ catalog_links = <<>>
    /\ gpc = "idle"
    /\ seed = 0
    /\ catalog_link = None
    /\ category = None
    /\ links = <<>>
    /\ link = 0
    /\ products = <<>>
    /\ fetched = <<>>

UnitIdle ==
    /\ inp = None
    /\ out = None
    /\ hist = None
    /\ steps = 0
    /\ changes = 0

SendRestIdle ==
    /\ data = <<>>
    /\ session = "none"
    /\ authorization = None
    /\ refresh_token = None
    /\ exp = 0
    /\ grants = 0
    /\ pc = "idle"
    /\ idx = 0
    /\ product_data = None
    /\ product_id = None
    /\ task = "none"
    /\ cancel_requested = FALSE
    /\ refreshes = 0
    /\ late_refresh = FALSE
    /\ rec = NoRec
    /\ attempted = {}
    /\ send_data_state = "idle"
    /\ run = 1
    /\ created = [n \in ProductNames |-> 0]
    /\ app_run = NoAppRun
    /\ token_expires_in = 0

Init ==
    /\ data \in ProductLists
    /\ remote \in RemoteInits
    /\ caches = EmptyCaches
    /\ session = "none"
    /\ authorization = None
    /\ refresh_token = None
    /\ exp = 0
    /\ grants = 0
    /\ pc = "grab"
    /\ idx = 0
    /\ product_data = None
    /\ product_id = None
    /\ task = "none"
    /\ cancel_requested = FALSE
    /\ refreshes = 0
    /\ late_refresh = FALSE
    /\ rec = NoRec
    /\ attempted = {}
    /\ send_data_state = "idle"
    /\ run = 1
    /\ created = [n \in ProductNames |-> 0]
    /\ app_run = NoAppRun
    /\ token_expires_in = 0
    /\ GrabIdle
    /\ UnitIdle

Next ==
    \/ Grab
    \/ Start
    \/ Auth
    \/ SendDataStart
    \/ Transform
    \/ Search
    \/ SendProduct
    \/ RefreshWake
    \/ RefreshResponse
    \/ Except
    \/ Stop
    \/ Rerun

Spec == Init /\ [][Next]_vars

\* ================================================= one call of the builder
\* The category part of _product_data (lines 190-220) applied once to every
\* chain of at most MaxChain names, for every set of categories the platform
\* has and every set of categories the client has cached earlier in the run.
Chains == UNION {[1..n -> CategoryNames] : n \in 1..MaxChain}

RemoteWith(cats, v) ==
    [product  |-> [n \in ProductNames |-> <<>>],
     currency |-> [s \in Symbols |-> IF s = "EUR" THEN <<Id(s, 1)>> ELSE <<>>],
     category |-> [n \in CategoryNames |-> IF n \in cats THEN <<Id(n, v)>> ELSE <<>>],
     tax      |-> [k \in {TaxName} |-> <<Id(k, 1)>>],
     folder   |-> [k \in {FolderName} |-> <<Id(k, 1)>>]]

CachesWith(cats) ==
    [EmptyCaches EXCEPT !.categories =
        [n \in CategoryNames |-> IF n \in cats THEN Id(n, 1) ELSE None]]

InitCategory ==
    /\ \E cs \in Chains, cats \in SUBSET CategoryNames,
          cached \in SUBSET CategoryNames, v \in {1, 2} :
         /\ remote = RemoteWith(cats, v)
         /\ caches = CachesWith(cached)
         /\ inp = [category_set |-> cs, c |-> CachesWith(cached)]
    /\ out = None
    /\ hist = None
    /\ steps = 0
    /\ changes = 0
    /\ SendRestIdle
    /\ GrabIdle

CategoryCall ==
    /\ steps = 0
    /\ \E ok \in 0..(Len(inp.category_set) + 2) :
         LET r == BuildCategory(inp.category_set, caches, remote, ok) IN
         /\ out' = r
         /\ caches' = r.c
    /\ steps' = 1
    /\ UNCHANGED <<inp, hist, changes, remote, sendRest, grabVars>>

NextCategory == CategoryCall

SpecCategory == InitCategory /\ [][NextCategory]_vars

\* ============================================== one run of the media loop
\* The media part of _product_data (lines 222-259) applied once to every
\* list of at most MaxImages image URLs, for every pattern of create and
\* upload statuses.  A file name has one dot, or two.
FileNames == {<<"a", "jpg">>, <<"b", "tar", "gz">>}

ImageLists == UNION {[1..n -> FileNames] : n \in 0..MaxImages}

InitMedia ==
    /\ \E urls \in ImageLists :
         \E resp \in [1..Len(urls) -> [create : Statuses, upload : Statuses]] :
           inp = [image_urls |-> urls, resp |-> resp]
    /\ remote = RemoteWith({}, 1)
    /\ caches = EmptyCaches
    /\ out = None
    /\ hist = None
    /\ steps = 0
    /\ changes = 0
    /\ SendRestIdle
    /\ GrabIdle

MediaCall ==
    /\ steps = 0
    /\ \E ok \in 0..(3 * Len(inp.image_urls) + 1) :
         LET up == UploadImages(inp.image_urls, 0, [name |-> "p1"], <<>>,
                                caches, remote, ok, inp.resp, <<>>)
         IN
         /\ out' = [raised |-> up.raised, sent |-> up.sent, ok |-> up.ok,
                    data |-> IF up.raised THEN None
                             ELSE Put(up.data, "media", up.media)]
         /\ caches' = up.c
    /\ steps' = 1
    /\ UNCHANGED <<inp, hist, changes, remote, sendRest, grabVars>>

NextMedia == MediaCall

SpecMedia == InitMedia /\ [][NextMedia]_vars

\* ======================================================= calls of the lookups
\* The four memoizing lookups called in any order, at most MaxLookups times,
\* while the platform's data changes at most MaxChanges times.
LookupKeys ==
    {<<"currency", s>> : s \in Symbols}
        \cup {<<"category", n>> : n \in CategoryNames}
        \cup {<<"tax", TaxName>>, <<"folder", FolderName>>}

InitResolver ==
    /\ \E cats \in {{}, {"Indoor"}} : remote = RemoteWith(cats, 1)
    /\ caches = EmptyCaches
    /\ inp = None
    /\ out = None
    /\ hist = [k \in LookupKeys |-> None]
    /\ steps = 0
    /\ changes = 0
    /\ SendRestIdle
    /\ GrabIdle

\* The lookup of key k returned r: out keeps the call, whether the network
\* answered it (net) and the ID that the same key had returned before, hist
\* the first ID returned for the key.
Returned(k, r, net) ==
    /\ caches' = r.c
    /\ inp' = k
    /\ out' = [key |-> k, id |-> r.id, raised |-> r.raised,
               asked |-> r.asked, before |-> hist[k], net |-> net]
    /\ hist' = IF hist[k] = None /\ ~r.raised THEN [hist EXCEPT ![k] = r.id]
               ELSE hist
    /\ steps' = steps + 1
    /\ UNCHANGED <<changes, remote, sendRest, grabVars>>

LookupCurrency ==
    /\ steps < MaxLookups
    /\ \E symbol \in Symbols, net \in BOOLEAN :
         Returned(<<"currency", symbol>>,
                  GetCurrencyId(caches, remote, symbol, net), net)

LookupCategory ==
    /\ steps < MaxLookups
    /\ \E name \in CategoryNames, net \in BOOLEAN :
         Returned(<<"category", name>>,
                  GetCategoryId(caches, remote, name, net), net)

LookupTax ==
    /\ steps < MaxLookups
    /\ \E net \in BOOLEAN :
         Returned(<<"tax", TaxName>>, GetStandardTaxId(caches, remote, net),
                  net)

LookupFolder ==
    /\ steps < MaxLookups
    /\ \E net \in BOOLEAN :
         Returned(<<"folder", FolderName>>,
                  GetProductMediaFolderId(caches, remote, net), net)

\* The platform's data changes: an entity is deleted, created, or replaced
\* by one with another ID.
RemoteTable(kind) ==
    CASE kind = "currency" -> remote.currency
      [] kind = "category" -> remote.category
      [] kind = "tax" -> remote.tax
      [] kind = "folder" -> remote.folder

RemoteChange ==
    /\ changes < MaxChanges
    /\ \E k \in LookupKeys, v \in Versions, there \in BOOLEAN :
         LET now == IF there THEN <<Id(k[2], v)>> ELSE <<>> IN
         /\ RemoteTable(k[1])[k[2]] # now
         /\ remote' =
              CASE k[1] = "currency" -> [remote EXCEPT !.currency[k[2]] = now]
                [] k[1] = "category" -> [remote EXCEPT !.category[k[2]] = now]
                [] k[1] = "tax" -> [remote EXCEPT !.tax[k[2]] = now]
                [] k[1] = "folder" -> [remote EXCEPT !.folder[k[2]] = now]
    /\ changes' = changes + 1
    /\ UNCHANGED <<inp, out, hist, steps, caches, sendRest, grabVars>>

NextResolver ==
    \/ LookupCurrency
    \/ LookupCategory
    \/ LookupTax
    \/ LookupFolder
    \/ RemoteChange

SpecResolver == InitResolver /\ [][NextResolver]_vars

\* ============================================================== the crawler
\* The source site.  A listing page is a product listing ("listing"), a
\* category-of-catalogs page with the thumbnail grid ("catalogs"), or a page
\* whose fetch or parse raises ("broken"); its title is its category, its
\* links are its img-w anchors, its next is the target of its li.next
\* control (None without one).  A product page exposes all the expected
\* fields ("complete"), lacks one ("incomplete"), or cannot be fetched
\* ("error").
Listing(n) == <<"listing", n>>
ProductPage(n) == <<"product", n>>

ListingUrls == {Listing(1), Listing(2), Listing(3)}
ProductUrls == {ProductPage(1), ProductPage(2)}

PageLinks(url) ==
    IF url = Listing(1) THEN <<ProductPage(1), ProductPage(2)>>
    ELSE IF url = Listing(2) THEN <<ProductPage(2)>>
    ELSE <<>>

PageKinds ==
    {[u \in ListingUrls |-> IF u = special THEN k ELSE "listing"] :
        special \in ListingUrls \cup {None}, k \in {"catalogs", "broken"}}

NextControls ==
    {[u \in ListingUrls |->
        IF u = Listing(1) THEN n1 ELSE IF u = Listing(2) THEN n2 ELSE n3] :
        n1 \in {None, Listing(2)},
        n2 \in {None, Listing(3), Listing(1)},
        n3 \in {None, Listing(1), Listing(3)}}

Sites ==
    {[kind |-> kinds, next |-> nexts,
      product |-> [u \in ProductUrls |->
                     IF u = ProductPage(1) THEN p1 ELSE "complete"],
      menu |-> {Listing(1), Listing(2)}] :
        kinds \in PageKinds, nexts \in NextControls,
        p1 \in {"complete", "incomplete", "error"}}

SeedLists == UNION {[1..n -> ListingUrls] : n \in 0..MaxSeeds}

\* _parse_product: the fields found on the page are handed to Product(...)
\* as these keyword arguments; a missing field raises AttributeError, and a
\* keyword that Product.__init__ does not take raises TypeError.
ParseProductKwargs ==
    {"name", "price", "description", "category", "image_urls", "ean"}

ParseProduct(url, page_state, title) ==
    IF page_state # "complete" THEN [raised |-> TRUE, product |-> None]
    ELSE IF ParseProductKwargs # ProductInitParams
    THEN [raised |-> TRUE, product |-> None]
    ELSE [raised |-> FALSE,
          product |-> [name |-> url, category_set |-> title]]

\* Lines 75-82: the page the while loop goes on with, None to leave it.
FollowNextNever(next) == None

FollowNext(next) == next

\* Lines 84-86: the except clause of a seed logs and continues with the
\* next seed (k is the seed that failed, n the number of seeds).
SeedExceptAbort(k, n) == n + 1

SeedExcept(k, n) == k + 1

\* Lines 52-57: the thumbnail grid marks a category-of-catalogs page.
IsCatalogsPage(kind) == kind = "catalogs"

InitGrab ==
    /\ site \in Sites
    /\ catalog_links \in SeedLists
    /\ gpc = "start"
    /\ seed = 0
    /\ catalog_link = None
    /\ category = None
    /\ links = <<>>
    /\ link = 0
    /\ products = <<>>
    /\ fetched = <<>>
    /\ remote = RemoteWith({}, 1)
    /\ caches = EmptyCaches
    /\ SendRestIdle
    /\ UnitIdle

\* The for loop goes on with seed k; past the last seed grab returns.
NextSeed(k) ==
    /\ seed' = k
    /\ category' = None
    /\ links' = <<>>
    /\ link' = 0
    /\ IF k <= Len(catalog_links)
       THEN /\ catalog_link' = catalog_links[k]
            /\ gpc' = "page"
       ELSE /\ catalog_link' = None
            /\ gpc' = "returned"

\* Lines 36-44: without seeds the site root is fetched and its menu gives
\* the seeds, in the arbitrary order of list(set(...)); a failure there
\* escapes grab.
GrabStart ==
    /\ gpc = "start"
    /\ IF Len(catalog_links) = 0
       THEN \E root_ok \in BOOLEAN :
              IF root_ok
              THEN \E order \in [1..Cardinality(site.menu) -> site.menu] :
                     /\ \A a, b \in DOMAIN order : a # b => order[a] # order[b]
                     /\ catalog_links' = order
                     /\ seed' = 1
                     /\ catalog_link' = order[1]
                     /\ gpc' = "page"
              ELSE /\ gpc' = "raised"
                   /\ UNCHANGED <<catalog_links, seed, catalog_link>>
       ELSE /\ seed' = 1
            /\ catalog_link' = catalog_links[1]
            /\ gpc' = "page"
            /\ UNCHANGED catalog_links
    /\ UNCHANGED <<site, category, links, link, products, fetched, sendVars,
                   unitVars>>

SeedFetches(k) == SelectSeq(fetched, LAMBDA e : e[1] = k)

\* Lines 47-59: the listing page is fetched and parsed.  fetched keeps the
\* first MaxFetches fetches of a seed.
FetchPage ==
    /\ gpc = "page"
    /\ fetched' = IF Len(SeedFetches(seed)) < MaxFetches
                  THEN Append(fetched, <<seed, catalog_link>>)
                  ELSE fetched
    /\ LET kind == site.kind[catalog_link] IN
       IF kind = "broken" THEN NextSeed(SeedExcept(seed, Len(catalog_links)))
       ELSE IF IsCatalogsPage(kind) THEN NextSeed(seed + 1)
       ELSE /\ category' = catalog_link
            /\ links' = PageLinks(catalog_link)
            /\ link' = 1
            /\ gpc' = "links"
            /\ UNCHANGED <<seed, catalog_link>>
    /\ UNCHANGED <<site, catalog_links, products, sendVars, unitVars>>

\* Lines 61-73: one product page is fetched and parsed; a failure skips it.
FetchProduct ==
    /\ gpc = "links"
    /\ link <= Len(links)
    /\ LET r == ParseProduct(links[link], site.product[links[link]], category) IN
       products' = IF r.raised THEN products ELSE Append(products, r.product)
    /\ link' = link + 1
    /\ UNCHANGED <<site, catalog_links, gpc, seed, catalog_link, category,
                   links, fetched, sendVars, unitVars>>

\* Lines 74-82: after the last product link the next control decides.
EndPage ==
    /\ gpc = "links"
    /\ link > Len(links)
    /\ LET next == FollowNext(site.next[catalog_link]) IN
       IF next = None
       THEN NextSeed(seed + 1)
       ELSE /\ catalog_link' = next
            /\ gpc' = "page"
            /\ category' = None
            /\ links' = <<>>
            /\ link' = 0
            /\ UNCHANGED seed
    /\ UNCHANGED <<site, catalog_links, products, fetched, sendVars, unitVars>>

NextGrab ==
    \/ GrabStart
    \/ FetchPage
    \/ FetchProduct
    \/ EndPage

SpecGrab == InitGrab /\ [][NextGrab]_vars

\* grab is one coroutine: whenever the page it awaits has arrived, it goes
\* on.
SpecGrabFair == SpecGrab /\ WF_vars(NextGrab)

\* =================================================================== claims
\* The product write requests (POST or PATCH to /api/product) among the
\* write requests sent for the product processed last.
ProductWrites == SelectSeq(rec.writes, LAMBDA w : w.kind \in {"POST", "PATCH"})

\* The product processed last, and whether the platform knows a currency
\* with the symbol of its price.
LastProduct == data[rec.idx]

SymbolUnresolved ==
    /\ rec.idx >= 1
    /\ Len(LastProduct.price) = 2
    /\ remote.currency[LastProduct.price[2]] = <<>>

\* C1 as stated: every product whose transform returned a payload gets
\* exactly one product write request, a POST to /api/product when the name
\* search had no match, else a PATCH to /api/product/<id of the first match>.
C1_ExactlyOneWrite ==
    (rec.done /\ rec.transform = "payload") =>
        /\ Len(ProductWrites) = 1
        /\ rec.search = "answered"
        /\ IF rec.matches = <<>>
           THEN /\ ProductWrites[1].kind = "POST"
                /\ ProductWrites[1].url = <<"/api/product">>
           ELSE /\ ProductWrites[1].kind = "PATCH"
                /\ ProductWrites[1].url = <<"/api/product", rec.matches[1]>>

\* C1 amended: every product whose transform returned a payload and whose
\* name search was answered gets exactly one product write request, a POST
\* to /api/product when the answer had no match, else a PATCH to
\* /api/product/<id of the first match>; a product whose name search raised
\* gets none.
C1_OneWritePerAnsweredSearch ==
    (rec.done /\ rec.transform = "payload") =>
        IF rec.search = "answered"
        THEN /\ Len(ProductWrites) = 1
             /\ IF rec.matches = <<>>
                THEN /\ ProductWrites[1].kind = "POST"
                     /\ ProductWrites[1].url = <<"/api/product">>
                ELSE /\ ProductWrites[1].kind = "PATCH"
                     /\ ProductWrites[1].url = <<"/api/product", rec.matches[1]>>
        ELSE Len(ProductWrites) = 0

C1_Witness ==
    /\ rec.done
    /\ rec.transform = "payload"
    /\ rec.search = "answered"
    /\ Len(rec.matches) = 2
    /\ Len(ProductWrites) = 1
    /\ ProductWrites[1].kind = "PATCH"

\* C2: in a later run over the same list, no POST is sent for a product
\* whose name an earlier run created; its product writes are PATCHes.
C2_NoCreateAfterCreate ==
    (rec.idx >= 1 /\ created[rec.name] # 0 /\ created[rec.name] < run) =>
        \A k \in 1..Len(ProductWrites) : ProductWrites[k].kind = "PATCH"

C2_Witness ==
    /\ run = 2
    /\ rec.idx >= 1
    /\ created[rec.name] = 1
    /\ Len(ProductWrites) = 1
    /\ ProductWrites[1].kind = "PATCH"

C4_RefreshStartedAndCancelled ==
    /\ attempted # {} => task # "none"
    /\ send_data_state = "returned" =>
           (cancel_requested /\ task \notin {"sleeping", "posting"})
    /\ ~late_refresh

C4_Witness ==
    /\ send_data_state = "returned"
    /\ refreshes >= 1
    /\ task = "cancelled"
    /\ attempted # {}

\* C5: for a product whose currency symbol the platform does not know, no
\* write request is sent (no media create, no upload, no POST, no PATCH)
\* and the loop has moved on to the next product.
C5_NoWriteWithoutCurrency ==
    SymbolUnresolved =>
        /\ rec.writes = <<>>
        /\ rec.done
        /\ idx = rec.idx + 1

C5_Witness ==
    /\ SymbolUnresolved
    /\ rec.transform = "none"
    /\ pc = "product"
    /\ idx = rec.idx + 1

\* A category resolves when the client has cached its ID earlier in the run
\* or the platform has a category of that name.
Resolves(name) ==
    inp.c.categories[name] # None \/ remote.category[name] # <<>>

ResolvedId(name) ==
    IF inp.c.categories[name] # None THEN inp.c.categories[name]
    ELSE remote.category[name][1]

\* Index in the chain of the nearest ancestor that resolves, 0 without one.
NearestAncestor(cs) ==
    LET found == {j \in 1..(Len(cs) - 1) : Resolves(cs[j])} IN
    IF found = {} THEN 0 ELSE CHOOSE j \in found : \A k \in found : k <= j

NamedNodes(chain) == SelectSeq(chain, LAMBDA node : "name" \in DOMAIN node)

\* C6: the category payload is {id: leafID} when the leaf resolves;
\* otherwise it names exactly the leaf and the ancestors strictly below the
\* nearest resolving ancestor, leaf first, ends in a reference to that
\* ancestor by ID, and names nothing at or above it.
C6_CategoryMinimality ==
    (steps = 1 /\ ~out.raised) =>
        LET cs == inp.category_set
            n == Len(cs)
            j == NearestAncestor(cs)
        IN
        IF Resolves(cs[n])
        THEN out.category = <<[id |-> ResolvedId(cs[n])]>>
        ELSE /\ NamedNodes(out.category) =
                    [k \in 1..(n - j) |-> [name |-> cs[n + 1 - k]]]
             /\ j > 0 =>
                    /\ Len(out.category) = n - j + 1
                    /\ out.category[n - j + 1] = [id |-> ResolvedId(cs[j])]
             /\ \A k \in 1..(n - j) : out.category[k] = [name |-> cs[n + 1 - k]]

\* The chain Home > Indoor > LED where only Indoor exists: one new category.
C6_Witness ==
    /\ steps = 1
    /\ inp.category_set = <<"Home", "Indoor", "LED">>
    /\ inp.c = EmptyCaches
    /\ remote.category["Indoor"] = <<Id("Indoor", 1)>>
    /\ remote.category["Home"] = <<>>
    /\ remote.category["LED"] = <<>>
    /\ ~out.raised
    /\ out.category = <<[name |-> "LED"], [id |-> Id("Indoor", 1)]>>

\* 0-based indexes of the images whose create and upload both answered 204,
\* in image_urls order.
RECURSIVE Uploaded(_, _)
Uploaded(resp, i) ==
    IF i >= Len(resp) THEN <<>>
    ELSE IF resp[i + 1].create = StatusNoContent
            /\ resp[i + 1].upload = StatusNoContent
         THEN <<i>> \o Uploaded(resp, i + 1)
         ELSE Uploaded(resp, i + 1)

\* C7: the cover is the first image that was uploaded successfully and the
\* gallery holds the later uploaded images in order; so there is a cover
\* whenever at least one image was uploaded.
C7_CoverSelection ==
    (steps = 1 /\ inp # None /\ ~out.raised) =>
        LET done == Uploaded(inp.resp, 0) IN
        IF done = <<>>
        THEN "cover" \notin DOMAIN out.data /\ out.data["media"] = <<>>
        ELSE /\ "cover" \in DOMAIN out.data
             /\ out.data["cover"] = [mediaId |-> MediaId(done[1])]
             /\ out.data["media"] =
                    [k \in 1..(Len(done) - 1) |-> [mediaId |-> MediaId(done[k + 1])]]

\* C8: once a lookup of a key has returned an ID, every later lookup of
\* that key returns the same ID and sends no search request.
C8_Memoized ==
    (out # None /\ out.before # None) =>
        /\ ~out.raised
        /\ out.id = out.before
        /\ ~out.asked

\* C8 restricted to the three kinds whose cache is written under the key
\* that is read: currency, category, media folder.
C8_MemoizedButTax ==
    (out # None /\ out.before # None /\ out.key[1] # "tax") =>
        /\ ~out.raised
        /\ out.id = out.before
        /\ ~out.asked

\* URLs of the listing pages fetched for seed k, in order.
SeedUrls(k) == [m \in 1..Len(SeedFetches(k)) |-> SeedFetches(k)[m][2]]

\* Seed k has been left.
SeedLeft(k) == k < seed \/ gpc = "returned"

\* The pages reached from url over the next controls, at most fuel of them.
RECURSIVE ChainFrom(_, _)
ChainFrom(url, fuel) ==
    IF url = None \/ fuel = 0 THEN <<>>
    ELSE <<url>> \o ChainFrom(site.next[url], fuel - 1)

\* The pages from url on are product listings chained by next controls,
\* the last of which has none.
IsChain(url) ==
    LET c == ChainFrom(url, Cardinality(ListingUrls)) IN
    /\ site.next[c[Len(c)]] = None
    /\ \A m \in 1..Len(c) : site.kind[c[m]] = "listing"

\* C9: when grab has returned, every complete product page linked from a
\* listing page that was processed has its Product in the result.
C9_CrawlComplete ==
    gpc = "returned" =>
        \A e \in 1..Len(fetched) :
            LET page == fetched[e][2] IN
            site.kind[page] = "listing" =>
                \A l \in 1..Len(PageLinks(page)) :
                    LET url == PageLinks(page)[l] IN
                    site.product[url] = "complete" =>
                        \E k \in 1..Len(products) :
                            /\ products[k].name = url
                            /\ products[k].category_set = page

\* C10: a seed whose pages p1..pn are chained by next controls, pn having
\* none, has had exactly p1, ..., pn fetched, in that order, once it is
\* left; and a category-of-catalogs page is the last page fetched for its
\* seed and gives no product.
C10_Pagination ==
    \A k \in 1..Len(catalog_links) :
        /\ (SeedLeft(k) /\ IsChain(catalog_links[k])) =>
               SeedUrls(k) = ChainFrom(catalog_links[k], Cardinality(ListingUrls))
        /\ \A m \in 1..Len(SeedUrls(k)) :
               site.kind[SeedUrls(k)[m]] = "catalogs" =>
                   /\ m = Len(SeedUrls(k))
                   /\ \A q \in 1..Len(products) :
                          products[q].category_set # SeedUrls(k)[m]

\* Three chained pages fetched in order for the first seed.
C10_Witness ==
    /\ gpc = "returned"
    /\ Len(catalog_links) >= 1
    /\ IsChain(catalog_links[1])
    /\ SeedUrls(1) = <<Listing(1), Listing(2), Listing(3)>>

\* C11: a listing page that raises ends its seed only: when grab returns
\* every seed has had its first page fetched, and no step takes a product
\* out of the result; a product page that raises is skipped only: a step
\* of the product loop always goes on with the next link of the same page,
\* and the page is left only past its last link, for the next page or the
\* next seed.
C11_CrawlerFaultIsolation ==
    /\ [](gpc = "returned" =>
            \A k \in 1..Len(catalog_links) : Len(SeedFetches(k)) >= 1)
    /\ [][/\ Len(products') >= Len(products)
          /\ SubSeq(products', 1, Len(products)) = products
          /\ (gpc = "links" /\ link <= Len(links)) =>
                 /\ gpc' = "links"
                 /\ link' = link + 1
                 /\ <<links', catalog_link', seed'>> = <<links, catalog_link, seed>>
          /\ (gpc = "links" /\ gpc' # "links") =>
                 /\ link > Len(links)
                 /\ \/ gpc' = "page" /\ catalog_link' = site.next[catalog_link]
                    \/ site.next[catalog_link] = None]_vars

\* The first seed's page raised and the second seed was crawled to its
\* end, over a page whose first product page could not be fetched.
C11_Witness ==
    /\ gpc = "returned"
    /\ Len(catalog_links) = 2
    /\ site.kind[catalog_links[1]] = "broken"
    /\ SeedUrls(1) = <<catalog_links[1]>>
    /\ site.product[ProductPage(1)] = "error"
    /\ SeedUrls(2) = <<Listing(1), Listing(2)>>

\* C12: once the refresh task has received a non-success answer to its
\* grant request, no product create or update request is issued in that
\* run, and send_data ends by raising.
C12_FailedRefreshIsFatal ==
    /\ [][task = "failed" => Len(ProductWrites') <= Len(ProductWrites)]_vars
    /\ []((task = "failed" /\ pc = "done") => send_data_state = "raised")

\* C13: when a step of App.run has raised, the failure is logged as fatal,
\* stop closes the client's session, and run finishes without raising.
C13_TopLevelFailureHandling ==
    /\ (pc = "stop" /\ send_data_state = "raised") => app_run.fatal
    /\ (pc = "done" /\ app_run.fatal) =>
           /\ session = "closed"
           /\ app_run.ended = "returned"

\* C14: every POST payload carries the productNumber generated for this
\* product in this call and the sales-channel visibilities entry; every
\* PATCH payload carries neither field.
C14_WritePayloadShape ==
    \A w \in 1..Len(ProductWrites) :
        LET json == ProductWrites[w].json IN
        IF ProductWrites[w].kind = "POST"
        THEN /\ Has(json, "productNumber")
             /\ json["productNumber"] = ProductNumber(<<run, rec.idx>>)
             /\ Has(json, "visibilities")
             /\ json["visibilities"] =
                    <<[salesChannelId |-> SalesChannelId,
                       visibility |-> Visibility]>>
        ELSE /\ ~Has(json, "productNumber")
             /\ ~Has(json, "visibilities")

\* A product created by the first run is updated by the second.
C14_Witness ==
    /\ run = 2
    /\ created["p1"] = 1
    /\ Len(ProductWrites) = 1
    /\ ProductWrites[1].kind = "PATCH"
    /\ Has(ProductWrites[1].json, "taxId")

\* No name of the chain resolves, while the default root category does.
NothingResolves(cs) ==
    /\ Resolves(HomeName)
    /\ \A k \in 1..Len(cs) : ~Resolves(cs[k])

\* The payload names the whole chain, leaf first, and its topmost named
\* category has the default root category, by ID, as parent.
RootAttached(cs, chain) ==
    /\ Len(chain) = Len(cs) + 1
    /\ \A k \in 1..Len(cs) : chain[k] = [name |-> cs[Len(cs) + 1 - k]]
    /\ chain[Len(cs) + 1] = [id |-> ResolvedId(HomeName)]

\* C15: for every chain of one or more names none of which resolves, the
\* topmost newly named category has the default root category, by its
\* resolved ID, as parent.
C15_DefaultRootAttachment ==
    (steps = 1 /\ ~out.raised /\ NothingResolves(inp.category_set)) =>
        RootAttached(inp.category_set, out.category)

\* C15 for the chains that have an ancestor, which is where the code
\* attaches the root.
C15_RootAttachedBelowAncestors ==
    (steps = 1 /\ ~out.raised /\ NothingResolves(inp.category_set)
        /\ Len(inp.category_set) >= 2) =>
        RootAttached(inp.category_set, out.category)

\* The images of the payload: the cover, then the gallery.
PayloadImages(d) ==
    (IF Has(d, "cover") THEN <<d["cover"]>> ELSE <<>>) \o d["media"]

\* Every request of the call was answered (no network call raised).
AllAnswered == out.ok >= 0

\* The images that came through, in image_urls order, once each, and
\* nothing else, are the images of the payload; every image was attempted.
ImagesIsolated ==
    /\ ~out.raised
    /\ Len(SelectSeq(out.sent, LAMBDA q : q.kind = "media_create")) =
           Len(inp.image_urls)
    /\ LET done == Uploaded(inp.resp, 0) IN
       PayloadImages(out.data) =
           [k \in 1..Len(done) |-> [mediaId |-> MediaId(done[k])]]

\* C16: whichever images fail at their create or upload step, the transform
\* still returns a payload, every image is attempted, and the payload holds
\* exactly the images that were uploaded, once each, in their order.
C16_PerImageFaultIsolation ==
    (steps = 1 /\ inp # None /\ AllAnswered) => ImagesIsolated

\* C16 for file names with exactly one dot, where a step fails only by
\* its status.
C16_StatusFailuresIsolated ==
    (steps = 1 /\ inp # None /\ AllAnswered
        /\ \A i \in 1..Len(inp.image_urls) : Len(inp.image_urls[i]) = 2) =>
        ImagesIsolated

\* The entry that the lookup of key k reads in the caches c.
CacheEntry(c, k) ==
    CASE k[1] = "currency" -> c.currencies[k[2]]
      [] k[1] = "category" -> c.categories[k[2]]
      [] k[1] = "tax" -> c.taxes[TaxCacheKey]
      [] k[1] = "folder" -> c.media_folders[FolderCacheKey]

\* The entities the platform has for key k.
Matches(k) == RemoteTable(k[1])[k[2]]

\* A lookup of key k whose search is answered without a match returns
\* absent and leaves no entry for k; and the lookup that follows an absent
\* one for the same key searches again and returns the ID of the entity
\* created in the meantime.
AbsenceNotCached(k) ==
    /\ (out'.asked /\ out'.net /\ Matches(k) = <<>>) =>
           /\ ~out'.raised
           /\ out'.id = None
           /\ CacheEntry(caches', k) = None
    /\ (out # None /\ out.key = k /\ ~out.raised /\ out.id = None
           /\ out'.net /\ Matches(k) # <<>>) =>
           /\ out'.asked
           /\ ~out'.raised
           /\ out'.id = Matches(k)[1]

\* C17: for each of the four lookup kinds, absence is returned and not
\* cached, so a later lookup picks up an entity created in the meantime.
C17_AbsenceNotCached ==
    [][steps' = steps + 1 => AbsenceNotCached(out'.key)]_vars

\* C17 for the three kinds that test the result list for emptiness:
\* currency, category, media folder.
C17_AbsenceNotCachedButTax ==
    [][(steps' = steps + 1 /\ out'.key[1] # "tax") =>
           AbsenceNotCached(out'.key)]_vars

\* The mapping of each lookup kind.
KindCache(c, kind) ==
    CASE kind = "currency" -> c.currencies
      [] kind = "category" -> c.categories
      [] kind = "tax" -> c.taxes
      [] kind = "folder" -> c.media_folders

LookupKinds == {"currency", "category", "tax", "folder"}

\* From caches c to caches d no entry is removed or changed.
AppendOnly(c, d) ==
    \A kind \in LookupKinds :
        \A e \in DOMAIN KindCache(c, kind) :
            KindCache(c, kind)[e] # None =>
                KindCache(d, kind)[e] = KindCache(c, kind)[e]

\* C18: a lookup of one kind leaves the mappings of the other three kinds
\* unchanged, and no step removes an entry or replaces its value.
C18_CachesIndependentAppendOnly ==
    [][/\ steps' = steps + 1 =>
             \A kind \in LookupKinds \ {out'.key[1]} :
                 KindCache(caches', kind) = KindCache(caches, kind)
       /\ AppendOnly(caches, caches')]_vars

\* C18 for the lookups of currencies, categories and the media folder.
C18_CachesIndependentButTax ==
    [][/\ (steps' = steps + 1 /\ out'.key[1] # "tax") =>
             \A kind \in LookupKinds \ {out'.key[1]} :
                 KindCache(caches', kind) = KindCache(caches, kind)
       /\ (steps' = steps + 1 /\ out'.key[1] # "tax") =>
             AppendOnly(caches, caches')]_vars

\* C19: the requests of a step belong to the product the loop is at; the
\* requests of another product begin only when the product before it in
\* the list has been finished (its transform returned None, a step of it
\* raised, or its write was answered), and no product is begun twice.
C19_OneProductAtATime ==
    [][run' = run =>
         /\ rec' # rec => (rec'.idx = idx /\ idx \in 1..Len(data))
         /\ (rec'.idx # rec.idx /\ rec.idx # 0) =>
                (rec.done /\ rec'.idx = rec.idx + 1)
         /\ attempted' # attempted =>
                (idx \notin attempted /\ attempted' = attempted \cup {idx}
                 /\ attempted = 1..(idx - 1))]_vars

\* The second product of the list has been written after the first.
C19_Witness ==
    /\ Len(data) = 2
    /\ attempted = {1, 2}
    /\ rec.idx = 2
    /\ rec.done
    /\ Len(ProductWrites) = 1

\* C20: while the refresh loop sleeps before a refresh, the time it waits
\* is the lifetime reported with the token it holds less the margin, which
\* is shorter than that lifetime: the refresh request is sent before the
\* token in the Authorization header expires.
C20_RefreshBeforeExpiry ==
    task = "sleeping" =>
        /\ exp = token_expires_in - ExpMargin
        /\ exp < token_expires_in

\* C21: at every point of every interleaving of send_data and the refresh
\* task, the Authorization header and the stored refresh token are those
\* of the most recent successful grant (both unset before the first), and
\* a step without a successful grant changes neither.
C21_NoLostCredentialUpdate ==
    /\ [](IF grants = 0
          THEN authorization = None /\ refresh_token = None
          ELSE /\ authorization = Id("access", grants)
               /\ refresh_token = Id("refresh", grants))
    /\ [][(run' = run /\ grants' = grants) =>
             (authorization' = authorization
              /\ refresh_token' = refresh_token)]_vars

\* The refresh task has stored its grant while a product was between its
\* name search and its write.
C21_Witness ==
    /\ pc = "write"
    /\ refreshes = 1
    /\ task = "sleeping"
    /\ grants = 2
    /\ authorization = Id("access", 2)
    /\ refresh_token = Id("refresh", 2)

\* The next controls lead from url to a page without one.
EndsChain(url) ==
    LET c == ChainFrom(url, Cardinality(ListingUrls)) IN
    site.next[c[Len(c)]] = None

\* C22: on every site, whatever its next links, grab comes to an end.
C22_CrawlTerminates == <>(gpc \in {"returned", "raised"})

\* C22 for the sites whose next links lead back to no page.
C22_TerminatesWithoutCycle ==
    (\A u \in ListingUrls : EndsChain(u)) =>
        <>(gpc \in {"returned", "raised"})

====
